---- MODULE Spec2Model ----
(***************************************************************************)
(* The call-tool dispatcher of the Replicate MCP server (src/src/index.ts)  *)
(* as a state machine: tool calls are dispatched, each validates its own    *)
(* arguments, suspends on one call of the remote client, and resumes into   *)
(* a response.  The remote inference service is modelled beside it.         *)
(*                                                                         *)
(* A JavaScript string is a sequence of chunks (TLA+ strings that are       *)
(* never split).  Model references are spelled character by character, so   *)
(* that the pattern of RunModelArgsSchema is matched as a pattern.          *)
(* A JavaScript value is a record [t |-> type, v |-> payload].              *)
(***************************************************************************)
EXTENDS Integers, Sequences, FiniteSets, TLC

\* Number of tool calls a run dispatches (they may all be in flight at once).
MaxCalls == 2
\* Longest model-reference string enumerated by SpecArgs.
MaxLen == 5
\* Number of predictions the remote service can hold.
NumPreds == 1

Calls == 1..MaxCalls

------------------------------------------------------------------------------
(* JavaScript values *)

Undefined == [t |-> "undefined", v |-> <<>>]
JNull == [t |-> "null", v |-> <<>>]
JStr(s) == [t |-> "string", v |-> s]
JNum(s) == [t |-> "number", v |-> s]
\* An object is the sequence of its own <<key, value>> properties, in insertion order.
JObj(props) == [t |-> "object", v |-> props]
JArr(items) == [t |-> "array", v |-> items]
\* An instance of Error carrying a message.
JError(msg) == [t |-> "Error", v |-> msg]

\* obj[key]: the value of the property, undefined when obj has no such property.
Prop(obj, key) ==
    IF obj.t = "object" /\ \E i \in 1..Len(obj.v) : obj.v[i][1] = key
    THEN obj.v[CHOOSE i \in 1..Len(obj.v) : obj.v[i][1] = key][2]
    ELSE Undefined

\* key in obj
HasProp(obj, key) == obj.t = "object" /\ \E i \in 1..Len(obj.v) : obj.v[i][1] = key

\* String(value) for the values a catch clause can see.
ToJsString(val) ==
    CASE val.t = "string" -> val.v
      [] val.t = "number" -> val.v
      [] val.t = "null" -> <<"null">>
      [] val.t = "undefined" -> <<"undefined">>
      [] val.t = "Error" -> <<"Error: ">> \o val.v
      [] val.t = "array" -> <<"[array]">>
      [] OTHER -> <<"[object Object]">>

------------------------------------------------------------------------------
(* The model-reference pattern /^[^/]+\/[^/:]+(?::[^/]+)?$/ *)

\* One element of a pattern: [^cs]+, a literal character, or an optional group.
PlusNot(cs) == [k |-> "plusNot", cs |-> cs, sub |-> <<>>]
Lit(ch) == [k |-> "lit", cs |-> {ch}, sub |-> <<>>]
Opt(sub) == [k |-> "opt", cs |-> {}, sub |-> sub]

\* The pattern with "/" let into the name: /^[^/]+\/[^:]+(?::[^/]+)?$/
ModelPatternSlashInName ==
    << PlusNot({"/"}), Lit("/"), PlusNot({":"}),
       Opt(<< Lit(":"), PlusNot({"/"}) >>) >>

ModelPattern ==
    << PlusNot({"/"}), Lit("/"), PlusNot({"/", ":"}),
       Opt(<< Lit(":"), PlusNot({"/"}) >>) >>

\* The positions at which a match of pat, started at position i of s, can end.
RECURSIVE MatchEnds(_, _, _)
MatchEnds(pat, s, i) ==
    IF pat = <<>> THEN {i}
    ELSE LET e == Head(pat)
             rest == Tail(pat)
             after ==
                 CASE e.k = "lit" ->
                        IF i <= Len(s) /\ s[i] \in e.cs THEN {i + 1} ELSE {}
                   [] e.k = "plusNot" ->
                        {j \in (i + 1)..(Len(s) + 1) :
                            \A m \in i..(j - 1) : s[m] \notin e.cs}
                   [] e.k = "opt" -> {i} \cup MatchEnds(e.sub, s, i)
         IN UNION {MatchEnds(rest, s, j) : j \in after}

\* regex.test(s), the pattern anchored at both ends.
RegexTest(s) == (Len(s) + 1) \in MatchEnds(ModelPattern, s, 1)

\* The predicate given to z.custom: a string that matches the pattern.
ModelPathCheck(val) ==
    IF val.t # "string" THEN FALSE ELSE RegexTest(val.v)

------------------------------------------------------------------------------
(* Schemas: safeParse returns [success, data]; data keeps only the schema's
   keys (unknown keys are stripped), and an absent optional key stays absent. *)

ParseFailure == [success |-> FALSE, data |-> Undefined]
ParseSuccess(props) == [success |-> TRUE, data |-> JObj(props)]

\* z.record(z.any()): a plain object (not an array, not null).
IsRecord(val) == val.t = "object"
\* z.string()
IsString(val) == val.t = "string"
\* z.string().optional()
IsOptionalString(val) == val.t = "undefined" \/ val.t = "string"
\* z.array(z.custom()).optional(): any array, or absent.
IsOptionalArray(val) == val.t = "undefined" \/ val.t = "array"

\* The properties of obj named in keys, in the order of keys, present ones only.
RECURSIVE Pick(_, _)
Pick(obj, keys) ==
    IF keys = <<>> THEN <<>>
    ELSE (IF Prop(obj, Head(keys)).t # "undefined"
          THEN << <<Head(keys), Prop(obj, Head(keys))>> >>
          ELSE <<>>) \o Pick(obj, Tail(keys))

RunModelArgsSchema(args) ==
    IF /\ args.t = "object"
       /\ ModelPathCheck(Prop(args, "model"))
       /\ IsRecord(Prop(args, "input"))
    THEN ParseSuccess(Pick(args, <<"model", "input">>))
    ELSE ParseFailure

GetPredictionArgsSchema(args) ==
    IF args.t = "object" /\ IsString(Prop(args, "id"))
    THEN ParseSuccess(Pick(args, <<"id">>))
    ELSE ParseFailure

CancelPredictionArgsSchema(args) ==
    IF args.t = "object" /\ IsString(Prop(args, "id"))
    THEN ParseSuccess(Pick(args, <<"id">>))
    ELSE ParseFailure

CreatePredictionArgsSchema(args) ==
    IF /\ args.t = "object"
       /\ ModelPathCheck(Prop(args, "model"))
       /\ IsRecord(Prop(args, "input"))
       /\ IsOptionalString(Prop(args, "webhook"))
       /\ IsOptionalArray(Prop(args, "webhook_events_filter"))
    THEN ParseSuccess(Pick(args, <<"model", "input", "webhook",
                                   "webhook_events_filter">>))
    ELSE ParseFailure

------------------------------------------------------------------------------
(* JSON.stringify(value, null, 2) and JSON.parse, chunk by chunk *)

Quote == "\""
Newline == "\n"
IndentUnit == "  "

\* No escaping at all.
EscapeChunkNone(ch) == ch

\* The escape of one chunk inside a string literal.
EscapeChunk(ch) ==
    CASE ch = "\"" -> "\\\""
      [] ch = "\\" -> "\\\\"
      [] ch = "\n" -> "\\n"
      [] OTHER -> ch

RECURSIVE Indent(_)
Indent(n) == IF n = 0 THEN <<>> ELSE <<IndentUnit>> \o Indent(n - 1)

\* A quoted string literal.
QuoteString(s) == <<Quote>> \o [i \in 1..Len(s) |-> EscapeChunk(s[i])] \o <<Quote>>

\* The own properties JSON.stringify writes: those whose value is not undefined.
RECURSIVE Serializable(_)
Serializable(props) ==
    IF props = <<>> THEN <<>>
    ELSE (IF Head(props)[2].t = "undefined" THEN <<>> ELSE <<Head(props)>>)
         \o Serializable(Tail(props))

RECURSIVE Stringify(_, _), StringifyProps(_, _), StringifyItems(_, _)
\* The text of val, written at nesting depth d.
Stringify(val, d) ==
    CASE val.t = "string" -> QuoteString(val.v)
      [] val.t = "number" -> val.v
      [] val.t = "null" -> <<"null">>
      [] val.t = "undefined" -> <<"null">>
      [] val.t = "array" ->
           IF val.v = <<>> THEN <<"[]">>
           ELSE <<"[">> \o StringifyItems(val.v, d + 1)
                \o <<Newline>> \o Indent(d) \o <<"]">>
      [] val.t = "object" ->
           IF Serializable(val.v) = <<>> THEN <<"{}">>
           ELSE <<"{">> \o StringifyProps(Serializable(val.v), d + 1)
                \o <<Newline>> \o Indent(d) \o <<"}">>
      [] OTHER -> <<"{}">>

StringifyProps(props, d) ==
    IF props = <<>> THEN <<>>
    ELSE <<Newline>> \o Indent(d) \o QuoteString(<<Head(props)[1]>>) \o <<": ">>
         \o Stringify(Head(props)[2], d)
         \o (IF Tail(props) = <<>> THEN <<>> ELSE <<",">>)
         \o StringifyProps(Tail(props), d)

StringifyItems(items, d) ==
    IF items = <<>> THEN <<>>
    ELSE <<Newline>> \o Indent(d) \o Stringify(Head(items), d)
         \o (IF Tail(items) = <<>> THEN <<>> ELSE <<",">>)
         \o StringifyItems(Tail(items), d)

\* JSON.stringify(value, null, 2)
JsonStringify(val) == Stringify(val, 0)

\* The parser's result: the value read and the position after it.
Parsed(val, next) == [ok |-> TRUE, val |-> val, next |-> next]
ParseError == [ok |-> FALSE, val |-> Undefined, next |-> 0]

Unescape(ch) ==
    CASE ch = "\\\"" -> "\""
      [] ch = "\\\\" -> "\\"
      [] ch = "\\n" -> "\n"
      [] OTHER -> ch

RECURSIVE SkipWs(_, _)
SkipWs(t, i) ==
    IF i <= Len(t) /\ t[i] \in {Newline, IndentUnit} THEN SkipWs(t, i + 1) ELSE i

\* The characters of a string literal, from position i just after its opening quote.
RECURSIVE ReadChars(_, _, _)
ReadChars(t, i, acc) ==
    IF i > Len(t) THEN ParseError
    ELSE IF t[i] = Quote THEN Parsed(acc, i + 1)
    ELSE IF t[i] = Newline THEN ParseError
    ELSE ReadChars(t, i + 1, Append(acc, Unescape(t[i])))

RECURSIVE ParseValue(_, _), ParseMembers(_, _, _), ParseItems(_, _, _)
ParseValue(t, i0) ==
    LET i == SkipWs(t, i0) IN
    IF i > Len(t) THEN ParseError
    ELSE CASE t[i] = Quote ->
                LET r == ReadChars(t, i + 1, <<>>)
                IN IF r.ok THEN Parsed(JStr(r.val), r.next) ELSE ParseError
           [] t[i] = "null" -> Parsed(JNull, i + 1)
           [] t[i] = "{}" -> Parsed(JObj(<<>>), i + 1)
           [] t[i] = "[]" -> Parsed(JArr(<<>>), i + 1)
           [] t[i] = "{" -> ParseMembers(t, i + 1, <<>>)
           [] t[i] = "[" -> ParseItems(t, i + 1, <<>>)
           [] t[i] \in {"}", "]", ",", ": "} -> ParseError
           [] OTHER -> Parsed(JNum(<<t[i]>>), i + 1)

\* The members of an object, from position i0 after "{" or ","; acc holds those read.
ParseMembers(t, i0, acc) ==
    LET i == SkipWs(t, i0) IN
    IF i > Len(t) \/ t[i] # Quote THEN ParseError
    ELSE LET k == ReadChars(t, i + 1, <<>>) IN
         IF ~k.ok \/ Len(k.val) # 1 THEN ParseError
         ELSE IF k.next > Len(t) \/ t[k.next] # ": " THEN ParseError
         ELSE LET r == ParseValue(t, k.next + 1) IN
              IF ~r.ok THEN ParseError
              ELSE LET j == SkipWs(t, r.next)
                       \* a repeated key overwrites the earlier value in place
                       same == {n \in 1..Len(acc) : acc[n][1] = k.val[1]}
                       acc2 == IF same = {} THEN Append(acc, <<k.val[1], r.val>>)
                               ELSE [n \in 1..Len(acc) |->
                                       IF n \in same THEN <<k.val[1], r.val>> ELSE acc[n]]
                   IN IF j > Len(t) THEN ParseError
                      ELSE IF t[j] = "," THEN ParseMembers(t, j + 1, acc2)
                      ELSE IF t[j] = "}" THEN Parsed(JObj(acc2), j + 1)
                      ELSE ParseError

ParseItems(t, i0, acc) ==
    LET r == ParseValue(t, i0) IN
    IF ~r.ok THEN ParseError
    ELSE LET j == SkipWs(t, r.next) IN
         IF j > Len(t) THEN ParseError
         ELSE IF t[j] = "," THEN ParseItems(t, j + 1, Append(acc, r.val))
         ELSE IF t[j] = "]" THEN Parsed(JArr(Append(acc, r.val)), j + 1)
         ELSE ParseError

\* JSON.parse(text): the value when text is one JSON value, a failure otherwise.
JsonParse(t) ==
    LET r == ParseValue(t, 1) IN
    IF r.ok /\ SkipWs(t, r.next) = Len(t) + 1 THEN r ELSE ParseError

------------------------------------------------------------------------------
(* The CallToolRequestSchema handler *)

\* A call of the remote client: the method and its positional arguments.
RemoteCall(op, args) == [op |-> op, args |-> args]

\* The text of a ZodError inside a message.
ZodErrorText == "[ZodError]"

InvalidArguments(tool) ==
    JError(<<"Invalid arguments for ", tool, ": ", ZodErrorText>>)

Throw(error) == [k |-> "throw", val |-> error]
Await(call) == [k |-> "await", val |-> call]

\* A response of the handler: content [{type: "text", text}], and isError when set.
Response(text, isError) == [kind |-> "result", isError |-> isError, text |-> text]
\* What the host sees when the handler's promise rejects.
Fault(error) == [kind |-> "fault", isError |-> FALSE, text |-> ToJsString(error)]

\* run_model forwarding an empty input instead of the parsed one.
RunModelCaseEmptyInput(args) ==
    LET parsed == RunModelArgsSchema(args) IN
    IF ~parsed.success THEN Throw(InvalidArguments("run_model"))
    ELSE Await(RemoteCall("run",
             << Prop(parsed.data, "model"), JObj(<< <<"input", JObj(<<>>)>> >>) >>))

\* case "run_model", up to the await
RunModelCase(args) ==
    LET parsed == RunModelArgsSchema(args) IN
    IF ~parsed.success THEN Throw(InvalidArguments("run_model"))
    ELSE Await(RemoteCall("run",
             << Prop(parsed.data, "model"),
                JObj(<< <<"input", Prop(parsed.data, "input")>> >>) >>))

\* The options with placeholders for the absent fields (webhook ?? "", filter ?? []).
CreateOptionsPlaceholder(data) ==
    JObj(<< <<"model", Prop(data, "model")>>,
            <<"input", Prop(data, "input")>>,
            <<"webhook", IF HasProp(data, "webhook")
                         THEN Prop(data, "webhook") ELSE JStr(<<>>)>>,
            <<"webhook_events_filter",
              IF HasProp(data, "webhook_events_filter")
              THEN Prop(data, "webhook_events_filter") ELSE JArr(<<>>)>> >>)

\* The options literal {model, input, webhook, webhook_events_filter}.
CreateOptions(data) ==
    JObj(<< <<"model", Prop(data, "model")>>,
            <<"input", Prop(data, "input")>>,
            <<"webhook", Prop(data, "webhook")>>,
            <<"webhook_events_filter", Prop(data, "webhook_events_filter")>> >>)

\* case "create_prediction", up to the await
CreatePredictionCase(args) ==
    LET parsed == CreatePredictionArgsSchema(args) IN
    IF ~parsed.success THEN Throw(InvalidArguments("create_prediction"))
    ELSE Await(RemoteCall("predictions.create", << CreateOptions(parsed.data) >>))

\* case "get_prediction", up to the await
GetPredictionCase(args) ==
    LET parsed == GetPredictionArgsSchema(args) IN
    IF ~parsed.success THEN Throw(InvalidArguments("get_prediction"))
    ELSE Await(RemoteCall("predictions.get", << Prop(parsed.data, "id") >>))

\* case "cancel_prediction", up to the await
CancelPredictionCase(args) ==
    LET parsed == CancelPredictionArgsSchema(args) IN
    IF ~parsed.success THEN Throw(InvalidArguments("cancel_prediction"))
    ELSE Await(RemoteCall("predictions.cancel", << Prop(parsed.data, "id") >>))

\* A default case that does not say which tool was asked for.
DefaultCaseUnnamed(name) == Throw(JError(<<"Unknown tool">>))

\* default:
DefaultCase(name) == Throw(JError(<<"Unknown tool: ", name>>))

\* switch (name), each case run up to its await or its throw.
SwitchName(name, args) ==
    CASE name = "run_model" -> RunModelCase(args)
      [] name = "create_prediction" -> CreatePredictionCase(args)
      [] name = "get_prediction" -> GetPredictionCase(args)
      [] name = "cancel_prediction" -> CancelPredictionCase(args)
      [] OTHER -> DefaultCase(name)

\* The rest of a case once the awaited promise is fulfilled with value.
AfterAwait(name, args, value) ==
    IF name = "cancel_prediction"
    THEN Response(<<"Successfully canceled prediction ">>
                      \o Prop(CancelPredictionArgsSchema(args).data, "id").v, FALSE)
    ELSE Response(JsonStringify(value), FALSE)

\* A catch clause that throws again.
CatchBlockRethrows(error) == Fault(error)

\* A catch clause that reports a fixed text.
CatchBlockGeneric(error) == Response(<<"Error: ", "Internal error">>, TRUE)

\* catch (error)
CatchBlock(error) ==
    LET errorMessage == IF error.t = "Error" THEN error.v ELSE ToJsString(error)
    IN Response(<<"Error: ">> \o errorMessage, TRUE)

\* The handler from its entry to its first suspension or its return.
HandlerEnter(name, args) ==
    LET r == SwitchName(name, args) IN
    IF r.k = "throw" THEN [k |-> "return", val |-> CatchBlock(r.val)] ELSE r

\* The handler from the settling of the awaited promise to its return.
HandlerResume(name, args, outcome) ==
    IF outcome.kind = "rejected" THEN CatchBlock(outcome.val)
    ELSE AfterAwait(name, args, outcome.val)

------------------------------------------------------------------------------
(* The remote inference service, as the adapter's specification describes it *)

PredNames == <<"p1", "p2", "p3", "p4">>
PredIds == {PredNames[i] : i \in 1..NumPreds}
Cancelable == {"starting", "processing"}
Terminal == {"succeeded", "failed", "canceled"}
\* "none": the service holds no prediction of that identifier.
Statuses == {"none"} \cup Cancelable \cup Terminal

\* The prediction record the service returns.
PredictionRecord(id, status) ==
    JObj(<< <<"id", JStr(<<id>>)>>,
            <<"status", JStr(<<status>>)>>,
            <<"output", IF status = "succeeded"
                        THEN JArr(<< JStr(<<"https://out/", id>>) >>) ELSE JNull>>,
            <<"error", IF status = "failed" THEN JStr(<<"boom">>) ELSE JNull>>,
            <<"logs", JStr(<<"say ", "\"", "hi", "\"", "\n">>)>>,
            <<"urls", JObj(<< <<"get", JStr(<<"https://api/", id>>)>> >>)>> >>)

\* The output of a synchronous run.
RunOutput == JArr(<< JStr(<<"https://out/run">>) >>)

\* What the remote client can raise besides "not found".
RemoteFailures == {JError(<<"fetch failed">>), JStr(<<"aborted">>)}
NotFound == JError(<<"Prediction not found">>)
QuotaExceeded == JError(<<"Quota exceeded">>)

Fulfilled(value, seen) == [kind |-> "fulfilled", val |-> value, seen |-> seen]
Rejected(error, seen) == [kind |-> "rejected", val |-> error, seen |-> seen]

------------------------------------------------------------------------------
(* State *)

VARIABLES
    server,     \* "starting", "running" or "exited": the process
    params,     \* params[c]: <<>> before call c is dispatched, then <<its request.params>>
    pc,         \* pc[c]: "idle", "awaiting", "settled" or "done"
    sent,       \* sent[c]: the calls of the remote client made for call c, in order
    settled,    \* settled[c]: <<>>, then <<the outcome of the awaited promise>>
    responses,  \* responses[c]: what the handler returned to the host for call c
    preds       \* preds[id]: the lifecycle state of prediction id at the service

vars == <<server, params, pc, sent, settled, responses, preds>>

Init ==
    /\ server = "starting"
    /\ params = [c \in Calls |-> <<>>]
    /\ pc = [c \in Calls |-> "idle"]
    /\ sent = [c \in Calls |-> <<>>]
    /\ settled = [c \in Calls |-> <<>>]
    /\ responses = [c \in Calls |-> <<>>]
    \* the service may hold the first prediction already, in any state
    /\ preds \in {f \in [PredIds -> Statuses] :
                     \A p \in PredIds : p # PredNames[1] => f[p] = "none"}

\* runServer(): the transport connects.
RunServer ==
    /\ server = "starting"
    /\ server' = "running"
    /\ UNCHANGED <<params, pc, sent, settled, responses, preds>>

\* runServer() rejects: the process exits.
RunServerFails ==
    /\ server = "starting"
    /\ server' = "exited"
    /\ UNCHANGED <<params, pc, sent, settled, responses, preds>>

\* The outcome read from one slot shared by all calls.
SharedOutcome(c) == settled[CHOOSE d \in Calls : settled[d] # <<>>][1]

\* The outcome the continuation of call c reads.
AwaitedOutcome(c) == settled[c][1]

\* A tools/call request, one of requests, arrives and its handler runs to its
\* await or its return.  Calls are numbered in their order of arrival.
CallTool(c, requests) ==
    /\ server = "running"
    /\ pc[c] = "idle"
    /\ \A b \in Calls : b < c => pc[b] # "idle"
    /\ \E p \in requests :
          /\ params' = [params EXCEPT ![c] = <<p>>]
          /\ LET h == HandlerEnter(p.name, p.arguments) IN
             IF h.k = "await"
             THEN /\ sent' = [sent EXCEPT ![c] = Append(@, h.val)]
                  /\ pc' = [pc EXCEPT ![c] = "awaiting"]
                  /\ UNCHANGED responses
             ELSE /\ responses' = [responses EXCEPT ![c] = Append(@, h.val)]
                  /\ pc' = [pc EXCEPT ![c] = "done"]
                  /\ UNCHANGED sent
    /\ UNCHANGED <<server, settled, preds>>

\* The awaited promise of call c has settled and the handler runs to its return.
ResumeCall(c) ==
    /\ server = "running"
    /\ pc[c] = "settled"
    /\ responses' = [responses EXCEPT ![c] =
           Append(@, HandlerResume(params[c][1].name, params[c][1].arguments,
                                   AwaitedOutcome(c)))]
    /\ pc' = [pc EXCEPT ![c] = "done"]
    /\ UNCHANGED <<server, params, sent, settled, preds>>

\* The request call c is waiting on.
Pending(c) == sent[c][Len(sent[c])]

Settle(c, outcome) ==
    /\ settled' = [settled EXCEPT ![c] = <<outcome>>]
    /\ pc' = [pc EXCEPT ![c] = "settled"]
    /\ UNCHANGED <<server, params, sent, responses>>

\* The prediction an identifier argument names, if the service holds it.
Known(idArg) == {p \in PredIds : idArg.v = <<p>> /\ preds[p] # "none"}

\* The run endpoint (synchronous): the model has completed.
RemoteRun(c) ==
    /\ pc[c] = "awaiting" /\ Pending(c).op = "run"
    /\ Settle(c, Fulfilled(RunOutput, ""))
    /\ UNCHANGED preds

\* The prediction-create endpoint: a new prediction in state "starting".
RemoteCreate(c) ==
    /\ pc[c] = "awaiting" /\ Pending(c).op = "predictions.create"
    /\ IF \E p \in PredIds : preds[p] = "none"
       THEN \E p \in PredIds :
               /\ preds[p] = "none"
               /\ preds' = [preds EXCEPT ![p] = "starting"]
               /\ Settle(c, Fulfilled(PredictionRecord(p, "starting"), "none"))
       ELSE /\ Settle(c, Rejected(QuotaExceeded, ""))
            /\ UNCHANGED preds

\* The prediction-get endpoint: a read.
RemoteGet(c) ==
    /\ pc[c] = "awaiting" /\ Pending(c).op = "predictions.get"
    /\ LET id == Pending(c).args[1] IN
       IF Known(id) # {}
       THEN LET p == CHOOSE q \in Known(id) : TRUE
            IN Settle(c, Fulfilled(PredictionRecord(p, preds[p]), preds[p]))
       ELSE Settle(c, Rejected(NotFound, "none"))
    /\ UNCHANGED preds

\* The prediction-cancel endpoint: idempotent, a no-op if not cancelable.
RemoteCancel(c) ==
    /\ pc[c] = "awaiting" /\ Pending(c).op = "predictions.cancel"
    /\ LET id == Pending(c).args[1] IN
       IF Known(id) # {}
       THEN LET p == CHOOSE q \in Known(id) : TRUE
                after == IF preds[p] \in Cancelable THEN "canceled" ELSE preds[p]
            IN /\ preds' = [preds EXCEPT ![p] = after]
               /\ Settle(c, Fulfilled(PredictionRecord(p, after), preds[p]))
       ELSE /\ Settle(c, Rejected(NotFound, "none"))
            /\ UNCHANGED preds

\* The remote client raises: a network failure, an HTTP error status.
RemoteFails(c) ==
    /\ pc[c] = "awaiting"
    /\ \E e \in RemoteFailures : Settle(c, Rejected(e, ""))
    /\ UNCHANGED preds

\* The service moves a prediction through its lifecycle.
Progress(p) ==
    /\ \/ preds[p] = "starting" /\ preds' = [preds EXCEPT ![p] = "processing"]
       \/ preds[p] = "processing" /\ preds' = [preds EXCEPT ![p] = "succeeded"]
       \/ preds[p] = "processing" /\ preds' = [preds EXCEPT ![p] = "failed"]
    /\ UNCHANGED <<server, params, pc, sent, settled, responses>>

Remote(c) ==
    \/ RemoteRun(c)
    \/ RemoteCreate(c)
    \/ RemoteGet(c)
    \/ RemoteCancel(c)
    \/ RemoteFails(c)

------------------------------------------------------------------------------
(* The requests a host sends *)

\* An arguments object holding the given properties, absent ones left out.
Arguments(props) == JObj(Serializable(props))

ToolCall(name, arguments) == [name |-> name, arguments |-> arguments]

SampleInput == JObj(<< <<"prompt", JStr(<<"hi">>)>> >>)
SampleHook == JStr(<<"https://hook">>)
SampleEvents == JArr(<< JStr(<<"start">>), JStr(<<"completed">>) >>)
SampleNumber == JNum(<<"42">>)

RunModelCall(model, input) ==
    ToolCall("run_model", Arguments(<< <<"model", model>>, <<"input", input>> >>))

CreatePredictionCall(model, input, webhook, filter) ==
    ToolCall("create_prediction",
             Arguments(<< <<"model", model>>, <<"input", input>>,
                          <<"webhook", webhook>>,
                          <<"webhook_events_filter", filter>> >>))

IdCall(name, id) == ToolCall(name, Arguments(<< <<"id", id>> >>))

\* The identifiers a host may pass: absent, not a string, empty, unknown, known.
IdValues ==
    {Undefined, SampleNumber, JStr(<<>>), JStr(<<"zz">>)}
        \cup {JStr(<<p>>) : p \in PredIds}

\* The calls of the concurrent specification: for each tool a well-formed
\* request, and some malformed ones.
ToolCallSamples ==
    {RunModelCall(JStr(<<"a", "/", "b">>), SampleInput),
     RunModelCall(JStr(<<"a", "/", "b", "/", "c">>), SampleInput),
     CreatePredictionCall(JStr(<<"a", "/", "b", ":", "c">>), SampleInput,
                          Undefined, Undefined),
     IdCall("get_prediction", JStr(<<PredNames[1]>>)),
     IdCall("get_prediction", Undefined),
     IdCall("cancel_prediction", JStr(<<PredNames[1]>>)),
     ToolCall("list_models", Undefined)}

\* The characters model references are spelled with.
Chars == {"a", "/", ":"}
AllStrings == UNION {[1..n -> Chars] : n \in 0..MaxLen}

ModelValues == {JStr(s) : s \in AllStrings} \cup {SampleNumber, Undefined}
InputValues == {SampleInput, JObj(<<>>), Undefined, JStr(<<"x">>), JArr(<<>>)}
HookValues ==
    {<<Undefined, Undefined>>, <<SampleHook, SampleEvents>>,
     <<SampleHook, Undefined>>, <<SampleNumber, Undefined>>,
     <<Undefined, JStr(<<"start">>)>>}
ToolNames ==
    {"run_model", "create_prediction", "get_prediction", "cancel_prediction"}
OtherNames == {"list_models", "RUN_MODEL", ""}

\* The calls of the single-call specification: every argument over its whole
\* bounded domain.
ToolCallDomain ==
    {RunModelCall(m, i) : m \in ModelValues, i \in InputValues}
    \cup {CreatePredictionCall(m, i, h[1], h[2]) :
             m \in ModelValues, i \in InputValues, h \in HookValues}
    \cup {IdCall(n, id) : n \in {"get_prediction", "cancel_prediction"},
                          id \in IdValues}
    \cup {ToolCall(n, a) : n \in ToolNames \cup OtherNames,
                           a \in {Undefined, JNull, JArr(<<>>)}}
    \cup {ToolCall(n, c.arguments) :
             n \in OtherNames,
             c \in {RunModelCall(JStr(<<"a", "/", "a">>), SampleInput),
                    IdCall("get_prediction", JStr(<<"p1">>))}}

------------------------------------------------------------------------------
(* Specifications *)

Next ==
    \/ RunServer
    \/ RunServerFails
    \/ \E c \in Calls : CallTool(c, ToolCallSamples)
    \/ \E c \in Calls : Remote(c)
    \/ \E c \in Calls : ResumeCall(c)
    \/ \E p \in PredIds : Progress(p)

\* Up to MaxCalls tool calls, in flight together, against the remote service.
Spec == Init /\ [][Next]_vars

InitArgs ==
    /\ Init
    /\ preds[PredNames[1]] \in {"none", "starting"}

NextArgs ==
    \/ RunServer
    \/ RunServerFails
    \/ CallTool(1, ToolCallDomain)
    \/ Remote(1)
    \/ ResumeCall(1)
    \/ \E p \in PredIds : Progress(p)

\* One tool call whose arguments range over the whole bounded domain.
SpecArgs == InitArgs /\ [][NextArgs]_vars

------------------------------------------------------------------------------
(* Vocabulary of the properties *)

Dispatched(c) == params[c] # <<>>
NameOf(c) == params[c][1].name
ArgsOf(c) == params[c][1].arguments
ResponseOf(c) == responses[c][1]
OutcomeOf(c) == settled[c][1]

\* part occurs in text as a run of consecutive chunks.
Contains(text, part) ==
    \E i \in 0..(Len(text) - Len(part)) : SubSeq(text, i + 1, i + Len(part)) = part

NoChar(s, ch) == \A i \in 1..Len(s) : s[i] # ch

\* owner/name: both parts non-empty, no further "/", no ":" in the name.
IsOwnerName(s) ==
    \E i \in 1..Len(s) :
        /\ s[i] = "/"
        /\ LET owner == SubSeq(s, 1, i - 1)
               name == SubSeq(s, i + 1, Len(s))
           IN /\ owner # <<>> /\ NoChar(owner, "/")
              /\ name # <<>> /\ NoChar(name, "/") /\ NoChar(name, ":")

\* owner/name:version: three non-empty parts, none holding a "/", the name no ":".
IsOwnerNameVersion(s) ==
    \E i \in 1..Len(s) : \E j \in (i + 1)..Len(s) :
        /\ s[i] = "/" /\ s[j] = ":"
        /\ LET owner == SubSeq(s, 1, i - 1)
               name == SubSeq(s, i + 1, j - 1)
               version == SubSeq(s, j + 1, Len(s))
           IN /\ owner # <<>> /\ NoChar(owner, "/")
              /\ name # <<>> /\ NoChar(name, "/") /\ NoChar(name, ":")
              /\ version # <<>> /\ NoChar(version, "/")

IsModelReference(val) ==
    val.t = "string" /\ (IsOwnerName(val.v) \/ IsOwnerNameVersion(val.v))

IsMapping(val) == val.t = "object"

ModelTools == {"run_model", "create_prediction"}
IdTools == {"get_prediction", "cancel_prediction"}

\* The method of the remote client a tool calls.
OpOf(name) ==
    CASE name = "run_model" -> "run"
      [] name = "create_prediction" -> "predictions.create"
      [] name = "get_prediction" -> "predictions.get"
      [] name = "cancel_prediction" -> "predictions.cancel"

ErrorFlagged(c) ==
    /\ pc[c] = "done"
    /\ Len(responses[c]) = 1
    /\ ResponseOf(c).kind = "result"
    /\ ResponseOf(c).isError

NormalResponse(c) ==
    /\ pc[c] = "done"
    /\ Len(responses[c]) = 1
    /\ ResponseOf(c).kind = "result"
    /\ ~ResponseOf(c).isError

------------------------------------------------------------------------------
(* Properties *)

\* C1: every call-tool request ends in exactly one response, normal or
\* error-flagged, never a fault: a call has no response before it is done and
\* exactly one once it is done, every response is a result of the handler, and
\* a call whose remote call has returned or raised can run to its response (the
\* process is running and the outcome is there for the continuation to read).
C1_OneResponseNeverAFault ==
    \A c \in Calls :
        /\ Len(responses[c]) = (IF pc[c] = "done" THEN 1 ELSE 0)
        /\ \A i \in 1..Len(responses[c]) :
              /\ responses[c][i].kind = "result"
              /\ responses[c][i].isError \in BOOLEAN
        /\ pc[c] = "settled" => (server = "running" /\ Len(settled[c]) = 1)

\* One call answered after its remote call raised, another answered normally.
C1_Witness ==
    \E c, d \in Calls :
        /\ ErrorFlagged(c) /\ settled[c] # <<>> /\ OutcomeOf(c).kind = "rejected"
        /\ NormalResponse(d)

\* C2: run_model and create_prediction with a model that is not owner/name or
\* owner/name:version, or with an input that is absent or not a mapping, make no
\* remote call and answer with an error-flagged "Invalid arguments for <tool>".
C2_MalformedRejectedBeforeAnyCall ==
    \A c \in Calls :
        (/\ Dispatched(c)
         /\ NameOf(c) \in ModelTools
         /\ \/ ~IsModelReference(Prop(ArgsOf(c), "model"))
            \/ ~IsMapping(Prop(ArgsOf(c), "input")))
        => /\ sent[c] = <<>>
           /\ ErrorFlagged(c)
           /\ Contains(ResponseOf(c).text, <<"Invalid arguments for ", NameOf(c)>>)

\* A model with three parts, beside a mapping input, was rejected.
C2_Witness ==
    \E c \in Calls :
        /\ Dispatched(c)
        /\ NameOf(c) = "run_model"
        /\ Prop(ArgsOf(c), "model") = JStr(<<"a", "/", "a", "/", "a">>)
        /\ IsMapping(Prop(ArgsOf(c), "input"))
        /\ ErrorFlagged(c)

\* The model and the input a remote call carries.
ForwardedModel(call) ==
    IF call.op = "run" THEN call.args[1] ELSE Prop(call.args[1], "model")
ForwardedInput(call) ==
    IF call.op = "run" THEN Prop(call.args[2], "input") ELSE Prop(call.args[1], "input")

\* What a well-formed model reference and mapping input lead to: one remote
\* call, of the tool's method, carrying that model and that input.
OneCallForwardingUnchanged(c) ==
    /\ Len(sent[c]) = 1
    /\ sent[c][1].op = OpOf(NameOf(c))
    /\ ForwardedModel(sent[c][1]) = Prop(ArgsOf(c), "model")
    /\ ForwardedInput(sent[c][1]) = Prop(ArgsOf(c), "input")

\* The optional arguments of create_prediction are of their types when present.
HooksWellTyped(args) ==
    /\ Prop(args, "webhook").t \in {"undefined", "string"}
    /\ Prop(args, "webhook_events_filter").t \in {"undefined", "array"}

\* C3 as stated: a valid model reference and a mapping input always pass
\* validation and trigger exactly one remote call with them forwarded unchanged.
C3_ValidModelAndInputAlwaysForwarded ==
    \A c \in Calls :
        /\ Len(sent[c]) <= 1
        /\ (/\ Dispatched(c)
            /\ NameOf(c) \in ModelTools
            /\ IsModelReference(Prop(ArgsOf(c), "model"))
            /\ IsMapping(Prop(ArgsOf(c), "input")))
           => OneCallForwardingUnchanged(c)

\* C3, amended: a valid model reference and a mapping input, with (for
\* create_prediction) webhook absent or a string and webhook_events_filter absent
\* or an array, pass validation and trigger exactly one remote call with the model
\* and input forwarded unchanged; no call ever makes a second remote call.
C3_WellTypedCallForwardedOnce ==
    \A c \in Calls :
        /\ Len(sent[c]) <= 1
        /\ (/\ Dispatched(c)
            /\ NameOf(c) \in ModelTools
            /\ IsModelReference(Prop(ArgsOf(c), "model"))
            /\ IsMapping(Prop(ArgsOf(c), "input"))
            /\ NameOf(c) = "create_prediction" => HooksWellTyped(ArgsOf(c)))
           => OneCallForwardingUnchanged(c)

\* run_model with owner/name:version was answered after its remote call raised,
\* having made one remote call.
C3_Witness ==
    \E c \in Calls :
        /\ Dispatched(c)
        /\ NameOf(c) = "run_model"
        /\ Prop(ArgsOf(c), "model") = JStr(<<"a", "/", "a", ":", "a">>)
        /\ pc[c] = "done"
        /\ settled[c] # <<>>
        /\ OutcomeOf(c).kind = "rejected"
        /\ Len(sent[c]) = 1

\* C4: when the remote client raises, the response is error-flagged and its
\* text contains the error's message text unchanged, the process is still
\* running, and a request not yet dispatched can still be dispatched.
C4_RemoteErrorReportedServerLives ==
    \A c \in Calls :
        (pc[c] = "done" /\ settled[c] # <<>> /\ OutcomeOf(c).kind = "rejected")
        => /\ ErrorFlagged(c)
           /\ Contains(ResponseOf(c).text, OutcomeOf(c).val.v)
           /\ server = "running"
           /\ \A d \in Calls :
                 (pc[d] = "idle" /\ \A b \in Calls : b < d => pc[b] # "idle")
                 => ENABLED CallTool(d, ToolCallSamples)

\* A call failed by the remote client, and a call dispatched later answered normally.
C4_Witness ==
    \E c, d \in Calls :
        /\ c < d
        /\ ErrorFlagged(c) /\ settled[c] # <<>> /\ OutcomeOf(c).kind = "rejected"
        /\ OutcomeOf(c).val.t = "Error"
        /\ NormalResponse(d)

\* C5: a call of a tool that is not in the catalog makes no remote call and
\* answers with an error-flagged response whose message names the tool asked for.
C5_UnknownToolNamedInError ==
    \A c \in Calls :
        (Dispatched(c) /\ NameOf(c) \notin ToolNames)
        => /\ sent[c] = <<>>
           /\ ErrorFlagged(c)
           /\ Contains(ResponseOf(c).text, <<"Unknown tool: ", NameOf(c)>>)

\* An unknown tool was called with arguments that would suit run_model.
C5_Witness ==
    \E c \in Calls :
        /\ Dispatched(c)
        /\ NameOf(c) = "list_models"
        /\ IsModelReference(Prop(ArgsOf(c), "model"))
        /\ ErrorFlagged(c)

\* C6: get_prediction and cancel_prediction answer an absent, non-string or
\* empty id with an error-flagged response and no remote call, and forward a
\* non-empty string id unchanged.
C6_IdMustBeNonEmptyString ==
    \A c \in Calls :
        (Dispatched(c) /\ NameOf(c) \in IdTools)
        => LET id == Prop(ArgsOf(c), "id") IN
           IF id.t = "string" /\ id.v # <<>>
           THEN sent[c] = << RemoteCall(OpOf(NameOf(c)), <<id>>) >>
           ELSE sent[c] = <<>> /\ ErrorFlagged(c)

\* C7: the confirmation "Successfully canceled prediction <id>" is returned
\* only when the prediction was in state "starting" or "processing" when the
\* service handled the cancel request.
C7_ConfirmationOnlyIfCancelable ==
    \A c \in Calls :
        (/\ Dispatched(c)
         /\ NameOf(c) = "cancel_prediction"
         /\ NormalResponse(c)
         /\ Contains(ResponseOf(c).text, <<"Successfully canceled prediction ">>))
        => OutcomeOf(c).seen \in Cancelable

\* What the handler computes for call c from the call's own arguments alone:
\* the remote calls it makes ...
OwnRequests(c) ==
    LET h == HandlerEnter(NameOf(c), ArgsOf(c))
    IN IF h.k = "await" THEN <<h.val>> ELSE <<>>

\* ... and its response, from its own arguments and the reply to its own request.
OwnResponse(c) ==
    IF settled[c] = <<>> THEN HandlerEnter(NameOf(c), ArgsOf(c)).val
    ELSE HandlerResume(NameOf(c), ArgsOf(c), OutcomeOf(c))

C8_OwnArgumentsOwnReply ==
    \A c \in Calls :
        /\ pc[c] # "idle" => sent[c] = OwnRequests(c)
        /\ pc[c] = "done" => responses[c] = <<OwnResponse(c)>>
        /\ pc[c] \in {"idle", "awaiting"} => settled[c] = <<>>

\* A step that changes anything of call c changes nothing of any other call.
C8_StepTouchesOneCall ==
    \A c, d \in Calls :
        (c # d /\ <<params[c], pc[c], sent[c], settled[c], responses[c]>>
                    # <<params'[c], pc'[c], sent'[c], settled'[c], responses'[c]>>)
        => <<params[d], pc[d], sent[d], settled[d], responses[d]>>
             = <<params'[d], pc'[d], sent'[d], settled'[d], responses'[d]>>

\* C8: under every interleaving of concurrent calls, each call's remote request
\* is built from its own arguments only, its response is determined by its own
\* arguments and the reply to its own request, and a step of one call leaves
\* every other call's request, reply and response as they were.
C8_CallsShareNoState ==
    [](C8_OwnArgumentsOwnReply) /\ [][C8_StepTouchesOneCall]_vars

\* Two calls overlapped: one was answered after its remote call raised while
\* the other, already replied to with a value, had not resumed yet; then both done.
C8_Witness ==
    \E c, d \in Calls :
        /\ c # d
        /\ ErrorFlagged(c) /\ settled[c] # <<>> /\ OutcomeOf(c).kind = "rejected"
        /\ pc[d] = "settled" /\ OutcomeOf(d).kind = "fulfilled"
        /\ NameOf(c) = NameOf(d)

HookKeys == {"webhook", "webhook_events_filter"}

\* The call's arguments with the optional ones left out.
BareArguments(args) ==
    Arguments(<< <<"model", Prop(args, "model")>>, <<"input", Prop(args, "input")>> >>)

\* The options of a create call but for the two optional fields.
WithoutHooks(options) ==
    JObj(SelectSeq(options.v, LAMBDA pr : pr[1] \notin HookKeys))

\* The request as the service reads it: the JSON text of the options, parsed.
WireForm(options) == JsonParse(JsonStringify(options)).val

\* C9: create_prediction with a valid model and input makes one
\* predictions.create call whether or not webhook and webhook_events_filter are
\* given; its request differs from the one made without them in those two fields
\* only, which read as undefined and are absent from the request's JSON when not
\* given; and for the same reply its response is the normal response of the call
\* made without them.
C9_OptionalHooksChangeNothingElse ==
    \A c \in Calls :
        (/\ Dispatched(c)
         /\ NameOf(c) = "create_prediction"
         /\ IsModelReference(Prop(ArgsOf(c), "model"))
         /\ IsMapping(Prop(ArgsOf(c), "input"))
         /\ HooksWellTyped(ArgsOf(c)))
        => LET bare == BareArguments(ArgsOf(c)) IN
           /\ Len(sent[c]) = 1
           /\ sent[c][1].op = "predictions.create"
           /\ LET options == sent[c][1].args[1]
                  bareOptions == HandlerEnter("create_prediction", bare).val.args[1]
              IN /\ WithoutHooks(options) = WithoutHooks(bareOptions)
                 /\ \A k \in HookKeys :
                       /\ Prop(options, k) = Prop(ArgsOf(c), k)
                       /\ ~HasProp(ArgsOf(c), k) => ~HasProp(WireForm(options), k)
           /\ (pc[c] = "done" /\ OutcomeOf(c).kind = "fulfilled")
              => /\ NormalResponse(c)
                 /\ ResponseOf(c) =
                        HandlerResume("create_prediction", bare, OutcomeOf(c))

\* A create_prediction call given both optional fields was answered normally.
C9_Witness ==
    \E c \in Calls :
        /\ Dispatched(c)
        /\ NameOf(c) = "create_prediction"
        /\ \A k \in HookKeys : HasProp(ArgsOf(c), k)
        /\ settled[c] # <<>> /\ OutcomeOf(c).kind = "fulfilled"
        /\ NormalResponse(c)

\* The text returned for a fetched prediction parses back to the record.
C10_TextParsesToTheRecord ==
    \A c \in Calls :
        (Dispatched(c) /\ NameOf(c) = "get_prediction" /\ pc[c] # "idle")
        => /\ \A i \in 1..Len(sent[c]) : sent[c][i].op = "predictions.get"
           /\ (pc[c] = "done" /\ settled[c] # <<>> /\ OutcomeOf(c).kind = "fulfilled")
              => /\ NormalResponse(c)
                 /\ JsonParse(ResponseOf(c).text).ok
                 /\ JsonParse(ResponseOf(c).text).val = OutcomeOf(c).val

\* The service's handling of a get_prediction call leaves every prediction as it was.
C10_FetchChangesNoPrediction ==
    \A c \in Calls :
        (/\ Dispatched(c)
         /\ NameOf(c) = "get_prediction"
         /\ pc[c] = "awaiting" /\ pc'[c] = "settled")
        => preds' = preds

\* C10: get_prediction returns, for every record and lifecycle status, a normal
\* response whose JSON text deserializes to exactly the record the remote client
\* returned, and the call does not change the remote prediction's state.
C10_GetPredictionPassesThrough ==
    [](C10_TextParsesToTheRecord) /\ [][C10_FetchChangesNoPrediction]_vars

\* A succeeded prediction, with its output list, was fetched and returned.
C10_Witness ==
    \E c \in Calls :
        /\ Dispatched(c)
        /\ NameOf(c) = "get_prediction"
        /\ settled[c] # <<>> /\ OutcomeOf(c).kind = "fulfilled"
        /\ OutcomeOf(c).seen = "succeeded"
        /\ NormalResponse(c)

====
